---- MODULE Spec2Model ----
(***************************************************************************)
(* A model of converter.py (xf-tools): the Yamaha XF chord and rehearsal   *)
(* decoders, the chord-figure normalizer, the melody extractor and the     *)
(* lead-sheet assembly.                                                    *)
(*                                                                         *)
(* Python strings are modelled as sequences of one-character strings, so   *)
(* that the regular expression and the str.replace calls of the source act *)
(* on characters.  Python's None is the value None below.                  *)
(***************************************************************************)
EXTENDS Integers, Sequences, FiniteSets, TLC

VARIABLES
    pc,             \* position of the running operation
    chord_bytes,    \* argument of _parse_xf_chord_sysex
    chord_figure,   \* its return value
    figure,         \* argument of _normalize_chord_figure
    normalized,     \* its return value
    renormalized,   \* the return value of a second call on the first result
    ticks_per_quarter,      \* the file's ticks_per_beat
    consumed,               \* the messages of the merged stream read so far
    absolute_time_ticks,    \* the running tick count of the scan
    open_notes,             \* _parse_melody_with_mido: pitch -> (start tick, velocity)
    notes,                  \* _parse_melody_with_mido: the notes emitted so far
    rehearsal_marks,        \* _parse_rehe_from_midi: the (tick, label) pairs so far
    result,                 \* the list a scan has returned
    chords,                 \* _parse_chords_from_midi: the chord symbols so far
    file,                   \* create_lead_sheet: the merged stream of the input file
    melody_score,           \* what converter.parse found: [ts, ks]
    extracted_melody_notes,
    extracted_chords,
    output_part,            \* the elements of the part, in the stream's order
    failures,               \* the steps of create_lead_sheet that have failed
    output_written,         \* the output file exists
    exit_code               \* the process's exit code, -1 while it runs

decVars == <<chord_bytes, chord_figure>>
normVars == <<figure, normalized, renormalized>>
scanVars == <<ticks_per_quarter, consumed, absolute_time_ticks, open_notes,
              notes, rehearsal_marks, result>>

leadVars == <<file, melody_score, extracted_melody_notes, extracted_chords,
              output_part, failures, output_written, exit_code>>

chordVars == <<chords>>

vars == <<pc, decVars, normVars, scanVars, chordVars, leadVars>>

(***************************************************************************)
(* Bounds of the model.                                                    *)
(***************************************************************************)
MaxChordBytes == 5
MaxFigureLen == 4
MaxMessages == 4

(***************************************************************************)
(* Python values.                                                          *)
(***************************************************************************)
None == <<"None">>

\* Python's \w class on ASCII text
WordChars ==
    {"A", "B", "C", "D", "E", "F", "G", "H", "I", "J", "K", "L", "M", "N",
     "O", "P", "Q", "R", "S", "T", "U", "V", "W", "X", "Y", "Z",
     "a", "b", "c", "d", "e", "f", "g", "h", "i", "j", "k", "l", "m", "n",
     "o", "p", "q", "r", "s", "t", "u", "v", "w", "x", "y", "z",
     "0", "1", "2", "3", "4", "5", "6", "7", "8", "9", "_"}

IsWord(c) == c \in WordChars

\* an empty dict
EmptyDict == [k \in {} |-> <<0, 0>>]

\* d[k] = v
DictSet(d, k, v) ==
    [x \in DOMAIN d \cup {k} |-> IF x = k THEN v ELSE d[x]]

\* d after d.pop(k)
DictPop(d, k) == [x \in DOMAIN d \ {k} |-> d[x]]

(***************************************************************************)
(* The parts of the state an operation does not use.                       *)
(***************************************************************************)
IdleDecoder ==
    /\ chord_bytes = <<>>
    /\ chord_figure = None

IdleNormalizer ==
    /\ figure = None
    /\ normalized = None
    /\ renormalized = None

IdleLead ==
    /\ file = <<>>
    /\ melody_score = [ts |-> FALSE, ks |-> FALSE]
    /\ extracted_melody_notes = <<>>
    /\ extracted_chords = <<>>
    /\ output_part = <<>>
    /\ failures = {}
    /\ output_written = FALSE
    /\ exit_code = -1

IdleChords == chords = <<>>

IdleScan ==
    /\ ticks_per_quarter = 1
    /\ consumed = <<>>
    /\ absolute_time_ticks = 0
    /\ open_notes = EmptyDict
    /\ notes = <<>>
    /\ rehearsal_marks = <<>>
    /\ result = None

(***************************************************************************)
(* Constants of the source.                                                *)
(***************************************************************************)
\* XF_ROOT_DISP, keys 0..6 stored at index key + 1
XF_ROOT_DISP ==
    << <<"b", "b", "b">>, <<"b", "b">>, <<"b">>, <<>>,
       <<"#">>, <<"#", "#">>, <<"#", "#", "#">> >>

\* XF_ROOT_NOTE, keys 1..7
XF_ROOT_NOTE == << "C", "D", "E", "F", "G", "A", "B" >>

\* XF_CHORD_TYPES, keys 0x00..0x22 stored at index key + 1
XF_CHORD_TYPES ==
    << <<>>,
       <<"6">>,
       <<"m", "a", "j", "7">>,
       <<"m", "a", "j", "7", "(", "#", "1", "1", ")">>,
       <<"a", "d", "d", "9">>,
       <<"m", "a", "j", "9">>,
       <<"6", "(", "9", ")">>,
       <<"a", "u", "g">>,
       <<"m">>,
       <<"m", "6">>,
       <<"m", "7">>,
       <<"m", "7", "b", "5">>,
       <<"m", "(", "a", "d", "d", "9", ")">>,
       <<"m", "9">>,
       <<"m", "1", "1">>,
       <<"m", "(", "m", "a", "j", "7", ")">>,
       <<"m", "(", "m", "a", "j", "7", ",", "9", ")">>,
       <<"d", "i", "m">>,
       <<"d", "i", "m", "7">>,
       <<"7">>,
       <<"7", "s", "u", "s", "4">>,
       <<"7", "b", "5">>,
       <<"7", "(", "9", ")">>,
       <<"7", "(", "#", "1", "1", ")">>,
       <<"7", "(", "1", "3", ")">>,
       <<"7", "(", "b", "9", ")">>,
       <<"7", "(", "b", "1", "3", ")">>,
       <<"7", "(", "#", "9", ")">>,
       <<"m", "a", "j", "7", "a", "u", "g">>,
       <<"7", "a", "u", "g">>,
       <<"1", "+", "8">>,
       <<"1", "+", "5">>,
       <<"s", "u", "s", "4">>,
       <<"1", "+", "2", "+", "5">>,
       <<"N", ".", "C", ".">> >>

NoChordText == <<"N", ".", "C", ".">>

\* dict.get on the three tables: None for a missing key
RootDispGet(fff) ==
    IF fff \in 0..6 THEN XF_ROOT_DISP[fff + 1] ELSE None

\* a slip: the letter table read with a zero-based key
RootNoteGet_ZeroBased(nnnn) ==
    IF nnnn \in 0..6 THEN <<XF_ROOT_NOTE[nnnn + 1]>> ELSE None

RootNoteGet(nnnn) ==
    IF nnnn \in 1..7 THEN <<XF_ROOT_NOTE[nnnn]>> ELSE None

ChordTypeGet(ct) ==
    IF ct \in 0..(Len(XF_CHORD_TYPES) - 1) THEN XF_CHORD_TYPES[ct + 1] ELSE None

(***************************************************************************)
(* _parse_xf_chord_sysex and its local parse_note_byte.                    *)
(***************************************************************************)
parse_note_byte(note_byte) ==
    IF note_byte = 127 THEN None
    ELSE LET fff      == (note_byte \div 16) % 8
             nnnn     == note_byte % 16
             disp_str == RootDispGet(fff)
             note_str == RootNoteGet(nnnn)
         IN  IF disp_str = None \/ note_str = None THEN None
             ELSE note_str \o disp_str

\* a slip: the bass suffix added without comparing bass and root
BuildFigure_AnyBass(root_str, type_str, bass_str) ==
    IF bass_str # None
    THEN root_str \o type_str \o <<"/">> \o bass_str
    ELSE root_str \o type_str

\* the figure of a decoded root, chord type and bass
BuildFigure(root_str, type_str, bass_str) ==
    IF bass_str # None /\ root_str # bass_str
    THEN root_str \o type_str \o <<"/">> \o bass_str
    ELSE root_str \o type_str

parse_xf_chord_sysex(bytes) ==
    IF ~(2 <= Len(bytes) /\ Len(bytes) <= 4) THEN None
    ELSE LET cr       == bytes[1]
             ct       == bytes[2]
             bn       == IF Len(bytes) >= 3 THEN bytes[3] ELSE 127
             type_str == ChordTypeGet(ct)
             root_str == parse_note_byte(cr)
             bass_str == parse_note_byte(bn)
         IN  IF type_str = None THEN None
             ELSE IF type_str = NoChordText THEN NoChordText
             ELSE IF root_str = None THEN None
             ELSE BuildFigure(root_str, type_str, bass_str)

(***************************************************************************)
(* The decoder on its own: a byte sequence is chosen, then decoded.        *)
(***************************************************************************)
\* bytes tried in the first three positions: valid and invalid roots,
\* chord types inside and outside the table, the 127 sentinel
SampleBytes == {0, 2, 8, 34, 49, 50, 68, 69, 113, 127}

\* bytes tried after the third position
TailBytes == {0, 127}

ChordByteSeqs ==
    UNION { { s \in [1..n -> SampleBytes \cup TailBytes] :
                \A i \in 1..n : (i <= 3 => s[i] \in SampleBytes)
                              /\ (i > 3 => s[i] \in TailBytes) } :
            n \in 0..MaxChordBytes }

InitDecoder ==
    /\ IdleLead
    /\ IdleChords
    /\ pc = "bytes"
    /\ chord_bytes \in ChordByteSeqs
    /\ chord_figure = None
    /\ IdleNormalizer
    /\ IdleScan

DecodeChord ==
    /\ pc = "bytes"
    /\ chord_figure' = parse_xf_chord_sysex(chord_bytes)
    /\ pc' = "decoded"
    /\ UNCHANGED <<chordVars, leadVars, chord_bytes, normVars, scanVars>>

NextDecoder == DecodeChord

SpecDecoder == InitDecoder /\ [][NextDecoder]_vars

(***************************************************************************)
(* Properties of the decoder.                                              *)
(***************************************************************************)
\* the layout of a root or bass byte, read from the bits alone
AccidentalCode(b) == (b \div 16) % 8
LetterCode(b) == b % 16
NibblesInRange(b) == AccidentalCode(b) \in 0..6 /\ LetterCode(b) \in 1..7

HasSlash(s) == \E i \in 1..Len(s) : s[i] = "/"

TypeInTable(b) == b \in 0..34

\* the byte sequences the claim calls malformed; the no-chord type 0x22 is
\* decided before the root and bass bytes are looked at
Malformed(bytes) ==
    \/ Len(bytes) < 2
    \/ Len(bytes) > 4
    \/ ~TypeInTable(bytes[2])
    \/ /\ bytes[2] # 34
       /\ \/ ~NibblesInRange(bytes[1])
          \/ Len(bytes) >= 3 /\ bytes[3] # 127 /\ ~NibblesInRange(bytes[3])

\* C2: the decoder returns no figure exactly when the byte count is outside
\* [2,4], the type byte is outside the table, the root byte is out of range,
\* or a present bass byte other than 127 is out of range; otherwise it
\* returns a figure.
C2_UnrecognizedIffMalformed ==
    pc = "decoded" => (chord_figure = None <=> Malformed(chord_bytes))

\* C3 as written: (0x32, 0x02, 0x45) decodes to "Dmaj7/F#".
C3_DecodesToFSharpBass ==
    (pc = "decoded" /\ chord_bytes = <<50, 2, 69>>)
        => chord_figure = <<"D", "m", "a", "j", "7", "/", "F", "#">>

\* C3 amended: (0x32, 0x02, 0x45) decodes to "Dmaj7/G#", letter code 5
\* being G, and "Dmaj7/F#" is the decoding of (0x32, 0x02, 0x44).
C3_DecodesToGSharpBass ==
    /\ (pc = "decoded" /\ chord_bytes = <<50, 2, 69>>)
           => chord_figure = <<"D", "m", "a", "j", "7", "/", "G", "#">>
    /\ (pc = "decoded" /\ chord_bytes = <<50, 2, 68>>)
           => chord_figure = <<"D", "m", "a", "j", "7", "/", "F", "#">>

C3_Witness == pc = "decoded" /\ chord_bytes = <<50, 2, 69>>

\* C4: a returned figure has a slash suffix only if a third byte is present,
\* is not 127, and decodes to a bass different from the decoded root.
C4_SlashOnlyForDistinctBass ==
    (pc = "decoded" /\ chord_figure # None /\ HasSlash(chord_figure))
        => /\ Len(chord_bytes) >= 3
           /\ chord_bytes[3] # 127
           /\ NibblesInRange(chord_bytes[3])
           /\ \/ AccidentalCode(chord_bytes[3]) # AccidentalCode(chord_bytes[1])
              \/ LetterCode(chord_bytes[3]) # LetterCode(chord_bytes[1])

\* a bass byte that decodes to the root's own note: no suffix
C4_Witness ==
    /\ pc = "decoded"
    /\ Len(chord_bytes) = 3
    /\ chord_bytes[3] = chord_bytes[1]
    /\ NibblesInRange(chord_bytes[1])
    /\ chord_figure # None
    /\ chord_figure # NoChordText
    /\ ~HasSlash(chord_figure)

(***************************************************************************)
(* _normalize_chord_figure.                                                *)
(***************************************************************************)
NoteLetters == {"A", "B", "C", "D", "E", "F", "G"}

\* s[i..] starts with t
StartsAt(s, i, t) ==
    /\ i + Len(t) - 1 <= Len(s)
    /\ \A k \in 1..Len(t) : s[i + k - 1] = t[k]

\* the regular expression's \b between positions k - 1 and k of s
WordBoundary(s, k) ==
    LET left  == k > 1 /\ IsWord(s[k - 1])
        right == k <= Len(s) /\ IsWord(s[k])
    IN  left # right

\* length of the match of \b[A-G](?:bb|##|b|#)\b at position i, 0 for none;
\* the alternatives are tried in the order written
EnharmonicMatchLen(s, i) ==
    IF ~(WordBoundary(s, i) /\ s[i] \in NoteLetters) THEN 0
    ELSE IF StartsAt(s, i + 1, <<"b", "b">>) /\ WordBoundary(s, i + 3) THEN 3
    ELSE IF StartsAt(s, i + 1, <<"#", "#">>) /\ WordBoundary(s, i + 3) THEN 3
    ELSE IF StartsAt(s, i + 1, <<"b">>) /\ WordBoundary(s, i + 2) THEN 2
    ELSE IF StartsAt(s, i + 1, <<"#">>) /\ WordBoundary(s, i + 2) THEN 2
    ELSE 0

\* enharmonic_map.get(note_name, note_name)
simplify_enharmonics(note_name) ==
    CASE note_name = <<"E", "#">> -> <<"F">>
      [] note_name = <<"B", "#">> -> <<"C">>
      [] note_name = <<"F", "b">> -> <<"E">>
      [] note_name = <<"C", "b">> -> <<"B">>
      [] note_name = <<"D", "b", "b">> -> <<"C">>
      [] note_name = <<"E", "b", "b">> -> <<"D">>
      [] note_name = <<"G", "b", "b">> -> <<"F">>
      [] note_name = <<"A", "b", "b">> -> <<"G">>
      [] note_name = <<"B", "b", "b">> -> <<"A">>
      [] OTHER -> note_name

\* re.sub: matches are found left to right, never overlapping, and the
\* replaced text is not scanned again
RECURSIVE EnharmonicSubFrom(_, _)
EnharmonicSubFrom(s, i) ==
    IF i > Len(s) THEN <<>>
    ELSE LET n == EnharmonicMatchLen(s, i)
         IN  IF n > 0
             THEN simplify_enharmonics(SubSeq(s, i, i + n - 1))
                      \o EnharmonicSubFrom(s, i + n)
             ELSE <<s[i]>> \o EnharmonicSubFrom(s, i + 1)

\* str.replace(old, new) with old non-empty
RECURSIVE ReplaceFrom(_, _, _, _)
ReplaceFrom(s, i, old, new) ==
    IF i > Len(s) THEN <<>>
    ELSE IF StartsAt(s, i, old)
         THEN new \o ReplaceFrom(s, i + Len(old), old, new)
         ELSE <<s[i]>> \o ReplaceFrom(s, i + 1, old, new)

Replace(s, old, new) == ReplaceFrom(s, 1, old, new)

\* str.replace(old, new, 1)
RECURSIVE ReplaceFirstFrom(_, _, _, _)
ReplaceFirstFrom(s, i, old, new) ==
    IF i > Len(s) THEN <<>>
    ELSE IF StartsAt(s, i, old)
         THEN new \o SubSeq(s, i + Len(old), Len(s))
         ELSE <<s[i]>> \o ReplaceFirstFrom(s, i + 1, old, new)

\* the chord-type rewrites of step 2
NormalizeTypes(s) ==
    Replace(Replace(Replace(s,
        <<"a", "d", "d", "9">>, <<"a", "d", "d", "2">>),
        <<"m", "7", "(", "1", "1", ")">>, <<"m", "1", "1">>),
        <<"m", "(", "m", "a", "j", "7", ",", "9", ")">>,
        <<"m", "(", "m", "a", "j", "9", ")">>)

\* a slip: only the first flat of each kind rewritten
FlatMarkers_FirstOnly(s) ==
    ReplaceFirstFrom(ReplaceFirstFrom(s, 1, <<"b", "b">>, <<"-", "-">>),
                     1, <<"b">>, <<"-">>)

\* figure.replace("bb", "--").replace("b", "-")
FlatMarkers(s) ==
    Replace(Replace(s, <<"b", "b">>, <<"-", "-">>), <<"b">>, <<"-">>)

normalize_chord_figure(fig) ==
    IF fig = <<>> \/ fig = NoChordText THEN fig
    ELSE FlatMarkers(NormalizeTypes(EnharmonicSubFrom(fig, 1)))

(***************************************************************************)
(* The normalizer on its own: a figure is chosen, normalized, and the      *)
(* result normalized again.                                                *)
(***************************************************************************)
RECURSIVE StringsUpTo(_, _)
StringsUpTo(alphabet, n) ==
    IF n = 0 THEN {<<>>}
    ELSE LET shorter == StringsUpTo(alphabet, n - 1)
         IN  shorter \cup { Append(s, c) : s \in shorter, c \in alphabet }

\* note letters of the enharmonic map, both accidentals, a chord-type
\* letter and a separator
FigureAlphabet == {"B", "C", "E", "F", "b", "#", "m", "/"}

SmallFigures == StringsUpTo(FigureAlphabet, MaxFigureLen)

\* bass bytes E#, Fb, Ebb, C, Bb
NormalizerBassBytes == {67, 36, 19, 49, 39}

\* every figure the decoder returns for a root and a type, and for a root,
\* a type and one of the bass bytes above
DecoderFigures ==
    ({ parse_xf_chord_sysex(<<r, t>>) : r \in 0..127, t \in 0..34 }
        \cup { parse_xf_chord_sysex(<<r, t, b>>) :
                 r \in 0..127, t \in 0..34, b \in NormalizerBassBytes })
    \ {None}

\* figures with the chord types that step 2 rewrites, as text events carry
TextFigures ==
    { <<"C", "a", "d", "d", "9">>,
      <<"C", "m", "7", "(", "1", "1", ")">>,
      <<"A", "b", "m", "(", "m", "a", "j", "7", ",", "9", ")", "/", "C", "b">>,
      <<"E", "b", "b", "/", "G", "b", "b">>,
      <<"G", "b", "7", "(", "b", "9", ")">> }

InitNormalizer ==
    /\ IdleLead
    /\ IdleChords
    /\ pc = "figure"
    /\ figure \in SmallFigures \cup DecoderFigures \cup TextFigures
    /\ normalized = None
    /\ renormalized = None
    /\ IdleDecoder
    /\ IdleScan

Normalize ==
    /\ pc = "figure"
    /\ normalized' = normalize_chord_figure(figure)
    /\ pc' = "normalized"
    /\ UNCHANGED <<chordVars, leadVars, figure, renormalized, decVars, scanVars>>

NormalizeAgain ==
    /\ pc = "normalized"
    /\ renormalized' = normalize_chord_figure(normalized)
    /\ pc' = "renormalized"
    /\ UNCHANGED <<chordVars, leadVars, figure, normalized, decVars, scanVars>>

NextNormalizer == Normalize \/ NormalizeAgain

SpecNormalizer == InitNormalizer /\ [][NextNormalizer]_vars

(***************************************************************************)
(* Properties of the normalizer.                                           *)
(***************************************************************************)
\* C6 as written: normalize(normalize(x)) = normalize(x) for every figure x.
C6_Idempotent ==
    pc = "renormalized" => renormalized = normalized

\* no letter b stands directly before E, B or #
NoFlatBeforeSharpNote(s) ==
    \A i \in 1..(Len(s) - 1) : s[i] = "b" => s[i + 1] \notin {"E", "B", "#"}

\* C6 amended: normalize(normalize(x)) = normalize(x) for every figure x in
\* which no b stands directly before E, B or #; every figure the decoder
\* returns is such a figure.
C6_IdempotentOnFigures ==
    /\ (pc = "renormalized" /\ NoFlatBeforeSharpNote(figure))
           => renormalized = normalized
    /\ figure \in DecoderFigures => NoFlatBeforeSharpNote(figure)

\* a figure that the first call changes in all three steps
C6_Witness ==
    /\ pc = "renormalized"
    /\ figure = <<"A", "b", "m", "(", "m", "a", "j", "7", ",", "9", ")", "/", "C", "b">>
    /\ normalized = <<"A", "-", "m", "(", "m", "a", "j", "9", ")", "/", "B">>

(***************************************************************************)
(* Messages of a merged stream (mido.merge_tracks): msg.time is the delta  *)
(* in ticks from the previous message.  Fields a message type does not     *)
(* have are <<>> or -1 and are never read for that type.  The field m21 is *)
(* what music21 answers when asked to build a chord symbol from the chord  *)
(* text of the message: "ok", "invalid" (harmony.ChordSymbol raises on the *)
(* text as found), "raises" (it raises on the normalized text) or "falsy"  *)
(* (the object built tests false).                                         *)
(***************************************************************************)
Msg(type, time, channel, note, velocity, data, text, m21) ==
    [type |-> type, time |-> time, channel |-> channel, note |-> note,
     velocity |-> velocity, data |-> data, text |-> text, m21 |-> m21]

NoteOn(time, channel, note, velocity) ==
    Msg("note_on", time, channel, note, velocity, <<>>, <<>>, "ok")

NoteOff(time, channel, note) ==
    Msg("note_off", time, channel, note, 0, <<>>, <<>>, "ok")

ControlChange(time, channel) ==
    Msg("control_change", time, channel, -1, -1, <<>>, <<>>, "ok")

Sysex(time) == Msg("sysex", time, -1, -1, -1, <<>>, <<>>, "ok")

SequencerSpecific(time, data) ==
    Msg("sequencer_specific", time, -1, -1, -1, data, <<>>, "ok")

\* a sequencer-specific message whose chord text music21 answers with m21
XFChordMsg(time, data, m21) ==
    Msg("sequencer_specific", time, -1, -1, -1, data, <<>>, m21)

\* a text, lyrics or marker meta message
TextMsg(type, time, text, m21) ==
    Msg(type, time, -1, -1, -1, <<>>, text, m21)

TextMeta(time) == TextMsg("text", time, <<>>, "ok")

\* msg.is_meta
is_meta(msg) ==
    msg.type \in {"sequencer_specific", "text", "lyrics", "marker", "track_name"}

\* hasattr(msg, 'channel')
HasChannel(msg) == msg.type \in {"note_on", "note_off", "control_change"}

(***************************************************************************)
(* Tick to quarter-note conversion: ticks / ticks_per_quarter, kept as the *)
(* fraction in lowest terms <<numerator, denominator>>.                    *)
(***************************************************************************)
RECURSIVE GCD(_, _)
GCD(a, b) == IF b = 0 THEN a ELSE GCD(b, a % b)

\* a slip: floor division
Quarter_Floor(ticks, q) == <<ticks \div q, 1>>

Quarter(ticks, q) ==
    LET g == GCD(ticks, q) IN <<ticks \div g, q \div g>>

(***************************************************************************)
(* _parse_melody_with_mido.                                                *)
(***************************************************************************)
\* absolute_time_ticks += msg.time
AddDelta(ticks, msg) == ticks + msg.time

\* note.Note(pitch) with its offset and duration.quarterLength set
Note(pitch, offset, quarterLength) ==
    [kind |-> "note", pitch |-> pitch, offset |-> offset,
     quarterLength |-> quarterLength]

\* the note closed at tick `ticks` from the pending entry of its pitch
ClosedNote(open, pitch, ticks, q) ==
    LET start_tick     == open[pitch][1]
        duration_ticks == ticks - start_tick
    IN  Note(pitch, Quarter(start_tick, q), Quarter(duration_ticks, q))

\* a change of behaviour: a pending note of the pitch is closed before the
\* new onset is stored
MelodyNoteOn_CloseThenReopen(open, ns, msg, ticks, q) ==
    [open  |-> DictSet(open, msg.note, <<ticks, msg.velocity>>),
     notes |-> IF msg.note \in DOMAIN open
               THEN Append(ns, ClosedNote(open, msg.note, ticks, q))
               ELSE ns]

\* note_on with velocity > 0 on the melody channel
MelodyNoteOn(open, ns, msg, ticks, q) ==
    [open  |-> DictSet(open, msg.note, <<ticks, msg.velocity>>),
     notes |-> ns]

\* note_off, or note_on with velocity 0, on the melody channel
MelodyNoteEnd(open, ns, msg, ticks, q) ==
    IF msg.note \in DOMAIN open
    THEN [open  |-> DictPop(open, msg.note),
          notes |-> Append(ns, ClosedNote(open, msg.note, ticks, q))]
    ELSE [open |-> open, notes |-> ns]

\* one iteration of the loop: st = [ticks, open, notes]
MelodyStep(st, msg, q) ==
    LET ticks == AddDelta(st.ticks, msg)
        skip  == [ticks |-> ticks, open |-> st.open, notes |-> st.notes]
        upd(r) == [ticks |-> ticks, open |-> r.open, notes |-> r.notes]
    IN  IF is_meta(msg) THEN skip
        ELSE IF HasChannel(msg) /\ msg.channel = 0
        THEN IF msg.type = "note_on" /\ msg.velocity > 0
             THEN upd(MelodyNoteOn(st.open, st.notes, msg, ticks, q))
             ELSE IF \/ msg.type = "note_off"
                     \/ (msg.type = "note_on" /\ msg.velocity = 0)
             THEN upd(MelodyNoteEnd(st.open, st.notes, msg, ticks, q))
             ELSE skip
        ELSE skip

(***************************************************************************)
(* The melody extractor on its own: the file is opened, the messages of    *)
(* the stream arrive one at a time, and the function returns.              *)
(***************************************************************************)
TicksPerQuarterValues == {2, 3}

MelodyMessages ==
    { NoteOn(0, 0, 60, 64), NoteOn(1, 0, 60, 64), NoteOn(0, 0, 62, 64),
      NoteOn(1, 0, 60, 0),
      NoteOff(0, 0, 60), NoteOff(1, 0, 60), NoteOff(1, 0, 62),
      NoteOn(0, 1, 60, 64), NoteOff(1, 1, 60),
      TextMeta(1), Sysex(1), ControlChange(0, 0) }

InitMelody ==
    /\ IdleLead
    /\ IdleChords
    /\ pc = "melody_open"
    /\ IdleDecoder
    /\ IdleNormalizer
    /\ ticks_per_quarter \in TicksPerQuarterValues
    /\ consumed = <<>>
    /\ absolute_time_ticks = 0
    /\ open_notes = EmptyDict
    /\ notes = <<>>
    /\ rehearsal_marks = <<>>
    /\ result = None

\* mido.MidiFile(path) succeeds
MelodyOpen ==
    /\ pc = "melody_open"
    /\ pc' = "melody_scan"
    /\ UNCHANGED <<chordVars, leadVars, decVars, normVars, scanVars>>

\* mido.MidiFile(path) raises: the exception leaves the function
MelodyOpenFails ==
    /\ pc = "melody_open"
    /\ pc' = "melody_raised"
    /\ UNCHANGED <<chordVars, leadVars, decVars, normVars, scanVars>>

MelodyMessage ==
    /\ pc = "melody_scan"
    /\ Len(consumed) < MaxMessages
    /\ \E msg \in MelodyMessages :
         LET st == MelodyStep([ticks |-> absolute_time_ticks,
                               open |-> open_notes, notes |-> notes],
                              msg, ticks_per_quarter)
         IN  /\ consumed' = Append(consumed, msg)
             /\ absolute_time_ticks' = st.ticks
             /\ open_notes' = st.open
             /\ notes' = st.notes
    /\ UNCHANGED <<chordVars, leadVars, pc, decVars, normVars, ticks_per_quarter, rehearsal_marks,
                   result>>

\* a change of behaviour: the pending notes are closed at the last tick
MelodyReturn_FlushPending ==
    /\ pc = "melody_scan"
    /\ pc' = "melody_returned"
    /\ result' = IF DOMAIN open_notes = {} THEN notes
                 ELSE LET p == CHOOSE x \in DOMAIN open_notes : TRUE
                      IN  Append(notes, ClosedNote(open_notes, p,
                              absolute_time_ticks, ticks_per_quarter))
    /\ UNCHANGED <<chordVars, leadVars, decVars, normVars, ticks_per_quarter, consumed,
                   absolute_time_ticks, open_notes, notes, rehearsal_marks>>

\* end of the stream: return notes
MelodyReturn ==
    /\ pc = "melody_scan"
    /\ pc' = "melody_returned"
    /\ result' = notes
    /\ UNCHANGED <<chordVars, leadVars, decVars, normVars, ticks_per_quarter, consumed,
                   absolute_time_ticks, open_notes, notes, rehearsal_marks>>

NextMelody == MelodyOpen \/ MelodyOpenFails \/ MelodyMessage \/ MelodyReturn

SpecMelody == InitMelody /\ [][NextMelody]_vars

(***************************************************************************)
(* Properties of the melody extractor, stated on the messages read.        *)
(***************************************************************************)
\* the absolute tick of the k-th message: the sum of the deltas of every
\* message up to and including it
RECURSIVE AbsTick(_, _)
AbsTick(msgs, k) ==
    IF k = 0 THEN 0 ELSE AbsTick(msgs, k - 1) + msgs[k].time

IsNoteStart(m) == m.type = "note_on" /\ m.channel = 0 /\ m.velocity > 0

IsNoteEnd(m) ==
    /\ m.channel = 0
    /\ m.type = "note_off" \/ (m.type = "note_on" /\ m.velocity = 0)

\* message j is a note-end that closes the note-start i: same pitch, and no
\* note-start or note-end of that pitch on the channel lies between them
Closes(msgs, i, j) ==
    /\ i < j
    /\ IsNoteStart(msgs[i])
    /\ IsNoteEnd(msgs[j])
    /\ msgs[i].note = msgs[j].note
    /\ \A k \in (i + 1)..(j - 1) :
         ~((IsNoteStart(msgs[k]) \/ IsNoteEnd(msgs[k]))
             /\ msgs[k].note = msgs[i].note)

ClosingEnds(msgs) ==
    { j \in 1..Len(msgs) : \E i \in 1..Len(msgs) : Closes(msgs, i, j) }

StartOf(msgs, j) == CHOOSE i \in 1..Len(msgs) : Closes(msgs, i, j)

\* the k-th closing note-end in stream order
KthEnd(msgs, k) ==
    CHOOSE j \in ClosingEnds(msgs) :
        Cardinality({ x \in ClosingEnds(msgs) : x <= j }) = k

\* the fraction f = <<numerator, denominator>> equals ticks / q
IsTicksOver(f, ticks, q) == f[2] > 0 /\ f[1] * q = ticks * f[2]

InMelodyScan == pc \in {"melody_scan", "melody_returned"}

\* C1: the notes emitted are, in stream order, the note-start/note-end pairs
\* of the channel; the note of a pair with start tick s and end tick e >= s
\* has the pair's pitch, offset s/q and duration (e-s)/q, ticks being sums
\* of the deltas of all messages read.
C1_NotesOfPairs ==
    InMelodyScan =>
        /\ Len(notes) = Cardinality(ClosingEnds(consumed))
        /\ \A k \in 1..Len(notes) :
             LET j == KthEnd(consumed, k)
                 i == StartOf(consumed, j)
                 s == AbsTick(consumed, i)
                 e == AbsTick(consumed, j)
             IN  /\ e >= s
                 /\ notes[k].pitch = consumed[j].note
                 /\ IsTicksOver(notes[k].offset, s, ticks_per_quarter)
                 /\ IsTicksOver(notes[k].quarterLength, e - s, ticks_per_quarter)

\* a note that starts after a meta message, off the quarter grid, and lasts
C1_Witness ==
    /\ pc = "melody_returned"
    /\ Len(result) = 1
    /\ consumed[1].type = "text"
    /\ result[1].offset[2] > 1
    /\ result[1].quarterLength[2] > 1

NotesOfPitch(ns, p) == { k \in 1..Len(ns) : ns[k].pitch = p }

\* the pitches of the note-starts and note-ends read on the channel
PitchesRead(msgs) ==
    { msgs[k].note : k \in { x \in 1..Len(msgs) :
                                IsNoteStart(msgs[x]) \/ IsNoteEnd(msgs[x]) } }

\* C8: what the scan returns holds one note per closed pair and none for a
\* note-start that no note-end follows; the end of the stream is reached
\* and the notes emitted are returned whatever is pending.
C8_UnclosedStartDropped ==
    /\ pc = "melody_scan" => ENABLED MelodyReturn
    /\ pc = "melody_raised" => consumed = <<>>
    /\ pc = "melody_returned" =>
         /\ result = notes
         /\ \A p \in PitchesRead(consumed) :
              Cardinality(NotesOfPitch(result, p))
                = Cardinality({ j \in ClosingEnds(consumed) : consumed[j].note = p })

\* the stream ends with a note pending and another one emitted
C8_Witness ==
    /\ pc = "melody_returned"
    /\ DOMAIN open_notes # {}
    /\ Len(result) >= 1
    /\ \E i \in 1..Len(consumed) :
         /\ IsNoteStart(consumed[i])
         /\ \A j \in (i + 1)..Len(consumed) :
              ~(IsNoteEnd(consumed[j]) /\ consumed[j].note = consumed[i].note)

\* the last note-start or note-end of pitch p on the channel, 0 for none
LastEvent(msgs, p) ==
    LET ev == { k \in 1..Len(msgs) :
                  (IsNoteStart(msgs[k]) \/ IsNoteEnd(msgs[k])) /\ msgs[k].note = p }
    IN  IF ev = {} THEN 0 ELSE CHOOSE k \in ev : \A x \in ev : x <= k

\* the pending table holds exactly the pitches whose last event is a
\* note-start, each with the tick of that latest note-start
PendingIsLatestOnset ==
    InMelodyScan =>
        /\ DOMAIN open_notes
             = { p \in PitchesRead(consumed) : LastEvent(consumed, p) # 0
                                  /\ IsNoteStart(consumed[LastEvent(consumed, p)]) }
        /\ \A p \in DOMAIN open_notes :
             open_notes[p][1] = AbsTick(consumed, LastEvent(consumed, p))

\* what reading one message does to the table and to the output
PendingStep ==
    (pc = "melody_scan" /\ consumed' # consumed) =>
        LET msg == consumed'[Len(consumed')]
            p   == msg.note
        IN  /\ IsNoteStart(msg) =>
                 /\ notes' = notes
                 /\ DOMAIN open_notes' = DOMAIN open_notes \cup {p}
                 /\ open_notes'[p][1] = absolute_time_ticks'
                 /\ \A x \in DOMAIN open_notes \ {p} : open_notes'[x] = open_notes[x]
            /\ (IsNoteEnd(msg) /\ p \notin DOMAIN open_notes) =>
                 /\ notes' = notes
                 /\ open_notes' = open_notes
            /\ (IsNoteEnd(msg) /\ p \in DOMAIN open_notes) =>
                 /\ Len(notes') = Len(notes) + 1
                 /\ SubSeq(notes', 1, Len(notes)) = notes
                 /\ notes'[Len(notes')].pitch = p
                 /\ IsTicksOver(notes'[Len(notes')].offset, open_notes[p][1],
                                ticks_per_quarter)
                 /\ DOMAIN open_notes' = DOMAIN open_notes \ {p}

\* C10: the pending table has one entry per pending pitch, that of the
\* latest note-start; a note-start for a pending pitch replaces the entry
\* and emits nothing, so the next note-end emits one note from the latest
\* onset; a note-end for a pitch that is not pending changes nothing.
C10_PendingTable == []PendingIsLatestOnset /\ [][PendingStep]_vars

\* a pitch started twice and then ended: one note, from the second onset
C10_Witness ==
    /\ pc = "melody_scan"
    /\ Len(consumed) = 4
    /\ IsNoteStart(consumed[1]) /\ consumed[1].note = 60
    /\ IsNoteStart(consumed[2]) /\ consumed[2].note = 60 /\ consumed[2].time > 0
    /\ IsNoteEnd(consumed[3]) /\ consumed[3].note = 60
    /\ IsNoteEnd(consumed[4]) /\ consumed[4].note = 60
    /\ Len(notes) = 1
    /\ notes[1].offset[1] > 0

(***************************************************************************)
(* _parse_rehe_from_midi.                                                  *)
(***************************************************************************)
XF_META_HEADER == <<67, 123>>

XF_REHE_ID == 2

\* XF_REHE_BASE, keys 0..15 stored at index key + 1
XF_REHE_BASE ==
    << <<"I", "n", "t", "r", "o">>,
       <<"E", "n", "d", "i", "n", "g">>,
       <<"F", "i", "l", "l", "-", "i", "n">>,
       <<"A">>, <<"B">>, <<"C">>, <<"D">>, <<"E">>, <<"F">>, <<"G">>,
       <<"H">>, <<"I">>, <<"J">>, <<"K">>, <<"L">>, <<"M">> >>

\* XF_REHE_BASE.get(base_idx, "?")
ReheBaseGet(base_idx) ==
    IF base_idx \in 0..15 THEN XF_REHE_BASE[base_idx + 1] ELSE <<"?">>

\* "'" * n
Apostrophes(n) == [k \in 1..n |-> "'"]

\* a slip: the variant count taken from all four high bits
mark_text_NoMask(rr) ==
    ReheBaseGet(rr % 16) \o Apostrophes(rr \div 16)

\* the label of the data byte rr
mark_text(rr) ==
    LET base_idx == rr % 16
        var_idx  == (rr \div 16) % 8
    IN  ReheBaseGet(base_idx) \o Apostrophes(var_idx)

\* msg is an XF meta event: header 0x43 0x7B and at least an ID byte
IsXFEvent(msg) ==
    /\ msg.type = "sequencer_specific"
    /\ Len(msg.data) > 2
    /\ SubSeq(msg.data, 1, 2) = XF_META_HEADER

\* one iteration of the loop: st = [ticks, marks]
ReheStep(st, msg) ==
    LET ticks == AddDelta(st.ticks, msg)
    IN  IF /\ IsXFEvent(msg)
           /\ msg.data[3] = XF_REHE_ID
           /\ Len(msg.data) > 3
        THEN [ticks |-> ticks,
              marks |-> Append(st.marks, <<ticks, mark_text(msg.data[4])>>)]
        ELSE [ticks |-> ticks, marks |-> st.marks]

(***************************************************************************)
(* The rehearsal scanner on its own.                                       *)
(***************************************************************************)
\* data bytes rr: Intro, A', M with seven variants, Fill-in with bit 7 set
RehearsalBytes == {0, 19, 127, 146}

RehearsalMessages ==
    { SequencerSpecific(2, <<67, 123, 2, rr>>) : rr \in RehearsalBytes }
    \cup { SequencerSpecific(0, <<67, 123, 2, 19>>),
           SequencerSpecific(1, <<67, 123, 2>>),
           SequencerSpecific(1, <<67, 123>>),
           SequencerSpecific(0, <<67, 123, 2, 19, 5>>),
           SequencerSpecific(1, <<67, 123, 1, 49, 0>>),
           SequencerSpecific(1, <<67, 122, 2, 19>>),
           TextMeta(1),
           NoteOn(1, 0, 60, 64) }

InitRehearsal ==
    /\ IdleLead
    /\ IdleChords
    /\ pc = "rehe_open"
    /\ IdleDecoder
    /\ IdleNormalizer
    /\ ticks_per_quarter = 1
    /\ consumed = <<>>
    /\ absolute_time_ticks = 0
    /\ open_notes = EmptyDict
    /\ notes = <<>>
    /\ rehearsal_marks = <<>>
    /\ result = None

\* mido.MidiFile(path) succeeds
ReheOpen ==
    /\ pc = "rehe_open"
    /\ pc' = "rehe_scan"
    /\ UNCHANGED <<chordVars, leadVars, decVars, normVars, scanVars>>

\* mido.MidiFile(path) raises: the error is printed and [] returned
ReheOpenFails ==
    /\ pc = "rehe_open"
    /\ pc' = "rehe_returned"
    /\ result' = <<>>
    /\ UNCHANGED <<chordVars, leadVars, decVars, normVars, ticks_per_quarter, consumed,
                   absolute_time_ticks, open_notes, notes, rehearsal_marks>>

ReheMessage ==
    /\ pc = "rehe_scan"
    /\ Len(consumed) < MaxMessages
    /\ \E msg \in RehearsalMessages :
         LET st == ReheStep([ticks |-> absolute_time_ticks,
                             marks |-> rehearsal_marks], msg)
         IN  /\ consumed' = Append(consumed, msg)
             /\ absolute_time_ticks' = st.ticks
             /\ rehearsal_marks' = st.marks
    /\ UNCHANGED <<chordVars, leadVars, pc, decVars, normVars, ticks_per_quarter, open_notes, notes,
                   result>>

\* end of the stream: return rehearsal_marks
ReheReturn ==
    /\ pc = "rehe_scan"
    /\ pc' = "rehe_returned"
    /\ result' = rehearsal_marks
    /\ UNCHANGED <<chordVars, leadVars, decVars, normVars, ticks_per_quarter, consumed,
                   absolute_time_ticks, open_notes, notes, rehearsal_marks>>

NextRehearsal == ReheOpen \/ ReheOpenFails \/ ReheMessage \/ ReheReturn

SpecRehearsal == InitRehearsal /\ [][NextRehearsal]_vars

(***************************************************************************)
(* Properties of the rehearsal scanner.                                    *)
(***************************************************************************)
BaseLabels ==
    << <<"I", "n", "t", "r", "o">>, <<"E", "n", "d", "i", "n", "g">>,
       <<"F", "i", "l", "l", "-", "i", "n">>,
       <<"A">>, <<"B">>, <<"C">>, <<"D">>, <<"E">>, <<"F">>, <<"G">>,
       <<"H">>, <<"I">>, <<"J">>, <<"K">>, <<"L">>, <<"M">> >>

\* bit k of the byte b
Bit(b, k) == (b \div (2 ^ k)) % 2

LowNibble(b) == Bit(b, 0) + 2 * Bit(b, 1) + 4 * Bit(b, 2) + 8 * Bit(b, 3)

VariantCount(b) == Bit(b, 4) + 2 * Bit(b, 5) + 4 * Bit(b, 6)

\* label is the base label of rr followed by exactly v apostrophes
IsLabelOf(label, rr) ==
    LET base == BaseLabels[LowNibble(rr) + 1]
        v    == VariantCount(rr)
    IN  /\ Len(label) = Len(base) + v
        /\ \A k \in 1..Len(base) : label[k] = base[k]
        /\ \A k \in (Len(base) + 1)..Len(label) : label[k] = "'"

\* a rehearsal message: header 0x43 0x7B, ID 0x02, and a data byte
IsRehearsalWithByte(m) ==
    /\ m.type = "sequencer_specific"
    /\ Len(m.data) >= 4
    /\ m.data[1] = 67 /\ m.data[2] = 123 /\ m.data[3] = 2

RehearsalIndices(msgs) ==
    { j \in 1..Len(msgs) : IsRehearsalWithByte(msgs[j]) }

KthRehearsal(msgs, k) ==
    CHOOSE j \in RehearsalIndices(msgs) :
        Cardinality({ x \in RehearsalIndices(msgs) : x <= j }) = k

\* C5: the marks recorded are, in stream order, one per rehearsal message
\* with a data byte rr, at the message's absolute tick, labelled with the
\* base label of the low 4 bits of rr followed by as many apostrophes as
\* bits 4-6 of rr say (0x13 gives "A'"); other messages, a rehearsal
\* message without data byte among them, record nothing.
C5_OneMarkPerRehearsalByte ==
    pc \in {"rehe_scan", "rehe_returned"} /\ consumed # <<>> =>
        /\ Len(rehearsal_marks) = Cardinality(RehearsalIndices(consumed))
        /\ \A k \in 1..Len(rehearsal_marks) :
             LET j == KthRehearsal(consumed, k)
             IN  /\ rehearsal_marks[k][1] = AbsTick(consumed, j)
                 /\ IsLabelOf(rehearsal_marks[k][2], consumed[j].data[4])
                 /\ consumed[j].data[4] = 19
                        => rehearsal_marks[k][2] = <<"A", "'">>

\* a rehearsal message without data byte, then the byte 0x92 recorded
C5_Witness ==
    /\ pc = "rehe_returned"
    /\ Len(consumed) = 3
    /\ consumed[1].data = <<67, 123, 2>>
    /\ consumed[2].data = <<67, 123, 2, 146>>
    /\ consumed[3].data = <<67, 123, 2, 19>>
    /\ consumed[3].time = 2
    /\ result = << <<3, <<"F", "i", "l", "l", "-", "i", "n", "'">> >>,
                   <<5, <<"A", "'">> >> >>

(***************************************************************************)
(* _parse_chords_from_midi: the text matcher.  The regular expression is   *)
(*   [^A-G]*([A-G][b#]?(?:maj|min|m|M|dim|aug|sus|add|[-_])?[0-9]*         *)
(*           (?:\(.*\))?(?:/[A-G][b#]?)?)\b                                *)
(* Each operator below matches the rest of the expression from position i  *)
(* and gives the position after the match, 0 when there is none; choices   *)
(* are tried in the order of a backtracking matcher.                       *)
(***************************************************************************)
Max(S) == CHOOSE x \in S : \A y \in S : y <= x
Min(S) == CHOOSE x \in S : \A y \in S : x <= y

Digits == {"0", "1", "2", "3", "4", "5", "6", "7", "8", "9"}

\* text.strip()
RECURSIVE Strip(_)
Strip(s) ==
    IF s = <<>> THEN s
    ELSE IF s[1] = " " THEN Strip(Tail(s))
    ELSE IF s[Len(s)] = " " THEN Strip(SubSeq(s, 1, Len(s) - 1))
    ELSE s

\* the closing \b
MatchEnd(s, i) == IF WordBoundary(s, i) THEN i ELSE 0

\* (?:/[A-G][b#]?)?
MatchBass(s, i) ==
    IF i + 1 <= Len(s) /\ s[i] = "/" /\ s[i + 1] \in NoteLetters
    THEN IF i + 2 <= Len(s) /\ s[i + 2] \in {"b", "#"} /\ MatchEnd(s, i + 3) # 0
         THEN MatchEnd(s, i + 3)
         ELSE IF MatchEnd(s, i + 2) # 0 THEN MatchEnd(s, i + 2)
         ELSE MatchEnd(s, i)
    ELSE MatchEnd(s, i)

\* (?:\(.*\))? with .* greedy
MatchParens(s, i) ==
    LET closing == { j \in (i + 1)..Len(s) : s[j] = ")" /\ MatchBass(s, j + 1) # 0 }
    IN  IF i <= Len(s) /\ s[i] = "(" /\ closing # {}
        THEN MatchBass(s, Max(closing) + 1)
        ELSE MatchBass(s, i)

\* [0-9]* greedy
MatchDigits(s, i) ==
    LET run  == { k \in 0..(Len(s) - i + 1) :
                    \A x \in i..(i + k - 1) : s[x] \in Digits }
        good == { k \in run : MatchParens(s, i + k) # 0 }
    IN  IF good # {} THEN MatchParens(s, i + Max(good)) ELSE 0

QualityTokens ==
    << <<"m", "a", "j">>, <<"m", "i", "n">>, <<"m">>, <<"M">>,
       <<"d", "i", "m">>, <<"a", "u", "g">>, <<"s", "u", "s">>,
       <<"a", "d", "d">>, <<"-">>, <<"_">> >>

\* (?:maj|min|m|M|dim|aug|sus|add|[-_])?
MatchQuality(s, i) ==
    LET good == { k \in 1..Len(QualityTokens) :
                    /\ StartsAt(s, i, QualityTokens[k])
                    /\ MatchDigits(s, i + Len(QualityTokens[k])) # 0 }
    IN  IF good # {}
        THEN MatchDigits(s, i + Len(QualityTokens[Min(good)]))
        ELSE MatchDigits(s, i)

\* [b#]?
MatchAccidental(s, i) ==
    IF i <= Len(s) /\ s[i] \in {"b", "#"} /\ MatchQuality(s, i + 1) # 0
    THEN MatchQuality(s, i + 1)
    ELSE MatchQuality(s, i)

\* re.search(...).group(1), None without a match: the group can only start
\* at a letter A-G, and the first such letter from which the rest matches
\* is the one re.search finds
ChordTextMatch(s) ==
    LET starts == { r \in 1..Len(s) :
                      s[r] \in NoteLetters /\ MatchAccidental(s, r + 1) # 0 }
    IN  IF starts = {} THEN None
        ELSE LET r == Min(starts)
             IN  SubSeq(s, r, MatchAccidental(s, r + 1) - 1)

(***************************************************************************)
(* _parse_chords_from_midi: the scan.                                      *)
(***************************************************************************)
XF_CHORD_ID == 1

\* harmony.ChordSymbol / harmony.NoChord with its offset set
ChordSymbol(fig, offset) ==
    [kind |-> "chord", figure |-> fig, offset |-> offset]

\* current_chord_text of an XF meta event
XFChordText(msg) ==
    IF msg.data[3] # XF_CHORD_ID THEN None
    ELSE LET payload == SubSeq(msg.data, 4, Len(msg.data))
             bytes   == SelectSeq(payload, LAMBDA b : b # 127)
         IN  IF bytes = <<>> THEN None
             ELSE parse_xf_chord_sysex(bytes)

\* current_chord_text of a text, lyrics or marker event
TextChordText(msg) ==
    LET text == Strip(msg.text)
    IN  IF text = <<>> THEN None
        ELSE LET parsed_text == ChordTextMatch(text)
             IN  IF parsed_text = None \/ msg.m21 = "invalid" THEN None
                 ELSE parsed_text

current_chord_text(msg) ==
    IF IsXFEvent(msg) THEN XFChordText(msg)
    ELSE IF is_meta(msg) /\ msg.type \in {"text", "lyrics", "marker"}
    THEN TextChordText(msg)
    ELSE None

\* the chords list after the try block at the end of the loop body
AppendChord(found, text, msg, ticks, q) ==
    IF text = None \/ text = <<>> THEN found
    ELSE IF text = NoChordText
    THEN IF msg.m21 = "falsy" THEN found
         ELSE Append(found, ChordSymbol(NoChordText, Quarter(ticks, q)))
    ELSE IF msg.m21 \in {"raises", "falsy"} THEN found
    ELSE Append(found,
                ChordSymbol(normalize_chord_figure(text), Quarter(ticks, q)))

\* a change of behaviour: an iteration that finds no chord text is left
\* before its delta is counted
ChordStep_SkipLosesDelta(st, msg, q) ==
    LET text  == current_chord_text(msg)
        ticks == IF text = None THEN st.ticks ELSE AddDelta(st.ticks, msg)
    IN  [ticks  |-> ticks,
         chords |-> AppendChord(st.chords, text, msg, ticks, q)]

\* one iteration of the loop: st = [ticks, chords]
ChordStep(st, msg, q) ==
    LET ticks == AddDelta(st.ticks, msg)
    IN  [ticks  |-> ticks,
         chords |-> AppendChord(st.chords, current_chord_text(msg), msg, ticks, q)]

\* the loops of the three scans over a whole stream
RECURSIVE ScanChords(_, _, _)
ScanChords(st, msgs, q) ==
    IF msgs = <<>> THEN st
    ELSE ScanChords(ChordStep(st, Head(msgs), q), Tail(msgs), q)

RECURSIVE ScanMelody(_, _, _)
ScanMelody(st, msgs, q) ==
    IF msgs = <<>> THEN st
    ELSE ScanMelody(MelodyStep(st, Head(msgs), q), Tail(msgs), q)

(***************************************************************************)
(* The chord scanner on its own: the file is opened, the messages of the   *)
(* stream arrive one at a time, and the function returns its chords.       *)
(***************************************************************************)
ChordMessages ==
    { XFChordMsg(0, <<67, 123, 1, 49, 0, 127>>, "ok"),
      XFChordMsg(1, <<67, 123, 1, 50, 8, 36>>, "ok"),
      XFChordMsg(1, <<67, 123, 1, 49, 34>>, "ok"),
      XFChordMsg(1, <<67, 123, 1, 49, 34>>, "falsy"),
      XFChordMsg(2, <<67, 123, 1, 49, 0>>, "raises"),
      XFChordMsg(1, <<67, 123, 1, 49, 35>>, "ok"),
      XFChordMsg(1, <<67, 123, 1, 127, 127>>, "ok"),
      SequencerSpecific(1, <<67, 123, 2, 19>>),
      TextMsg("marker", 0, <<"[", "G", "7", "]">>, "ok"),
      TextMsg("lyrics", 2, <<"G", "s", "u", "s">>, "invalid"),
      TextMsg("text", 1, <<"l", "a">>, "ok"),
      NoteOn(1, 0, 60, 64) }

InitChords ==
    /\ IdleDecoder
    /\ IdleNormalizer
    /\ IdleLead
    /\ pc = "chords_open"
    /\ ticks_per_quarter \in TicksPerQuarterValues
    /\ consumed = <<>>
    /\ absolute_time_ticks = 0
    /\ open_notes = EmptyDict
    /\ notes = <<>>
    /\ rehearsal_marks = <<>>
    /\ result = None
    /\ chords = <<>>

\* mido.MidiFile(path) succeeds; chords = [] and absolute_time_ticks = 0
ChordsOpen ==
    /\ pc = "chords_open"
    /\ pc' = "chords_scan"
    /\ UNCHANGED <<chordVars, leadVars, decVars, normVars, scanVars>>

\* mido.MidiFile(path) raises: the error is printed and [] returned
ChordsOpenFails ==
    /\ pc = "chords_open"
    /\ pc' = "chords_returned"
    /\ result' = <<>>
    /\ UNCHANGED <<chordVars, leadVars, decVars, normVars, ticks_per_quarter,
                   consumed, absolute_time_ticks, open_notes, notes,
                   rehearsal_marks>>

\* one iteration of the loop over mido.merge_tracks(mf.tracks)
ChordsMessage ==
    /\ pc = "chords_scan"
    /\ Len(consumed) < MaxMessages
    /\ \E msg \in ChordMessages :
         \E st \in { ChordStep([ticks |-> absolute_time_ticks,
                                chords |-> chords], msg, ticks_per_quarter) } :
             /\ consumed' = Append(consumed, msg)
             /\ absolute_time_ticks' = st.ticks
             /\ chords' = st.chords
    /\ UNCHANGED <<leadVars, pc, decVars, normVars, ticks_per_quarter,
                   open_notes, notes, rehearsal_marks, result>>

\* end of the stream: return chords
ChordsReturn ==
    /\ pc = "chords_scan"
    /\ pc' = "chords_returned"
    /\ result' = chords
    /\ UNCHANGED <<chordVars, leadVars, decVars, normVars, ticks_per_quarter,
                   consumed, absolute_time_ticks, open_notes, notes,
                   rehearsal_marks>>

NextChords == ChordsOpen \/ ChordsOpenFails \/ ChordsMessage \/ ChordsReturn

SpecChords == InitChords /\ [][NextChords]_vars

(***************************************************************************)
(* Properties of the chord scanner, stated on the messages read.           *)
(***************************************************************************)
InChordScan == pc \in {"chords_scan", "chords_returned"}

\* a binary chord event: header 0x43 0x7B and ID 0x01
IsChordEvent(m) ==
    /\ m.type = "sequencer_specific"
    /\ Len(m.data) >= 3
    /\ m.data[1] = 67 /\ m.data[2] = 123 /\ m.data[3] = 1

\* its payload, the 0x7F bytes removed
ChordPayload(m) ==
    SelectSeq(SubSeq(m.data, 4, Len(m.data)), LAMBDA b : b # 127)

\* a malformed binary chord event: nothing is left of the payload, or the
\* decoder returns no figure for it
IsMalformedChordEvent(m) ==
    /\ IsChordEvent(m)
    /\ \/ ChordPayload(m) = <<>>
       \/ parse_xf_chord_sysex(ChordPayload(m)) = None

IsTextEvent(m) == m.type \in {"text", "lyrics", "marker"}

HasCandidate(m) == IsTextEvent(m) /\ ChordTextMatch(Strip(m.text)) # None

\* a text event whose candidate the chord-symbol library does not accept
FailsValidation(m) == HasCandidate(m) /\ m.m21 = "invalid"

\* an event the scan skips
IsSkipped(m) == IsMalformedChordEvent(m) \/ FailsValidation(m)

\* a decodable event: a binary chord event that is not malformed or a
\* text event with a candidate, from which the library builds a chord symbol
IsDecodable(m) ==
    /\ \/ IsChordEvent(m) /\ ~IsMalformedChordEvent(m)
       \/ HasCandidate(m)
    /\ m.m21 = "ok"

DecodableIndices(msgs) == { j \in 1..Len(msgs) : IsDecodable(msgs[j]) }

\* the k-th smallest member of a set of indices
KthOf(S, k) == CHOOSE j \in S : Cardinality({ x \in S : x <= j }) = k

\* the fraction f is not below 0, and g is not below f
FractionAtMost(f, g) == f[1] * g[2] <= g[1] * f[2]

\* the chords collected are, in stream order, one per decodable event read,
\* each at its absolute tick (the deltas of all earlier events counted)
\* over ticks_per_quarter; the offsets are not negative and do not decrease
ChordsOfDecodable ==
    InChordScan =>
        LET decodable == DecodableIndices(consumed)
        IN  /\ Len(chords) = Cardinality(decodable)
            /\ \A k \in 1..Len(chords) :
                 /\ IsTicksOver(chords[k].offset,
                                AbsTick(consumed, KthOf(decodable, k)),
                                ticks_per_quarter)
                 /\ chords[k].offset[1] >= 0
                 /\ k > 1 =>
                        FractionAtMost(chords[k - 1].offset, chords[k].offset)

\* reading a skipped event changes neither the chords collected nor the
\* position of the scan, which goes on with the next message
SkipStep ==
    (pc = "chords_scan" /\ consumed' # consumed
        /\ IsSkipped(consumed'[Len(consumed')])) =>
            /\ chords' = chords
            /\ pc' = "chords_scan"
            /\ absolute_time_ticks' = AbsTick(consumed', Len(consumed'))

\* C11: a malformed binary chord event (payload the decoder returns nothing
\* for, or empty once its 0x7F bytes are removed) and a text event whose
\* candidate fails validation add no chord and leave the chords collected
\* unchanged, and the scan goes on: every decodable event, those after a
\* skipped one included, has its chord at (its absolute tick, the deltas of
\* the skipped events counted) / ticks_per_quarter, so that the offsets are
\* non-negative and non-decreasing in the order of emission.
C11_SkipAndContinue == []ChordsOfDecodable /\ [][SkipStep]_vars

\* an empty payload, an undecodable payload and an invalid text are read,
\* each with a delta, and the chord event after them is emitted at tick 5
C11_Witness ==
    /\ pc = "chords_returned"
    /\ ticks_per_quarter = 2
    /\ Len(consumed) = 4
    /\ consumed[1].data = <<67, 123, 1, 127, 127>>
    /\ consumed[2].data = <<67, 123, 1, 49, 35>>
    /\ consumed[3].text = <<"G", "s", "u", "s">>
    /\ consumed[4].data = <<67, 123, 1, 50, 8, 36>>
    /\ Len(result) = 1
    /\ result[1].offset = <<5, 2>>

(***************************************************************************)
(* create_lead_sheet, run from main through run_lead_sheet_generation.     *)
(*                                                                         *)
(* The part is a music21 stream: insert(offset, element) keeps the         *)
(* elements ordered by offset, then by the class sort order of the         *)
(* element, then by insertion.                                             *)
(***************************************************************************)
OffsetLess(a, b) == a[1] * b[2] < b[1] * a[2]

\* music21's classSortOrder
ClassSortOrder(el) ==
    CASE el.kind = "ks" -> 2
      [] el.kind = "ts" -> 4
      [] OTHER -> 20

\* el sorts after x when both are in one stream and el was inserted last
SortsAfter(el, x) ==
    \/ OffsetLess(x.offset, el.offset)
    \/ /\ x.offset = el.offset
       /\ ClassSortOrder(x) <= ClassSortOrder(el)

\* part.insert(el.offset, el)
StreamInsert(part, el) ==
    LET before == SelectSeq(part, LAMBDA x : SortsAfter(el, x))
        after  == SelectSeq(part, LAMBDA x : ~SortsAfter(el, x))
    IN  before \o <<el>> \o after

RECURSIVE InsertAll(_, _)
InsertAll(part, els) ==
    IF els = <<>> THEN part
    ELSE InsertAll(StreamInsert(part, Head(els)), Tail(els))

\* the time and key signature found in the score, inserted at offset 0
SignatureElements(score) ==
    (IF score.ts THEN << [kind |-> "ts", offset |-> <<0, 1>>] >> ELSE <<>>)
        \o (IF score.ks THEN << [kind |-> "ks", offset |-> <<0, 1>>] >> ELSE <<>>)

\* a change of behaviour: the melody notes inserted before the chords
MergedPart_NotesFirst(score, chord_list, melody) ==
    InsertAll(InsertAll(InsertAll(<<>>, SignatureElements(score)), melody), chord_list)

\* steps 5 and 6: the part with the signatures, the chord_list, then the notes
MergedPart(score, chord_list, melody) ==
    InsertAll(InsertAll(InsertAll(<<>>, SignatureElements(score)), chord_list), melody)

ScanStart == [ticks |-> 0, open |-> EmptyDict, notes |-> <<>>]

\* _parse_melody_with_mido(midi_path, q) on a file that opens
ParseMelody(msgs, q) == ScanMelody(ScanStart, msgs, q).notes

\* _parse_chords_from_midi(midi_path, q) on a file that opens
ParseChords(msgs, q) == ScanChords([ticks |-> 0, chords |-> <<>>], msgs, q).chords

LeadMessages ==
    { NoteOn(0, 0, 60, 64), NoteOff(2, 0, 60), NoteOn(1, 0, 62, 64),
      XFChordMsg(0, <<67, 123, 1, 49, 0, 127>>, "ok"),
      XFChordMsg(1, <<67, 123, 1, 50, 8, 36>>, "ok"),
      TextMsg("marker", 0, <<"[", "G", "7", "]">>, "ok") }

LeadFiles ==
    UNION { [1..n -> LeadMessages] : n \in 0..MaxMessages }

InitLead ==
    /\ pc = "lead_parse"
    /\ IdleDecoder
    /\ IdleNormalizer
    /\ IdleScan
    /\ IdleChords
    /\ file \in LeadFiles
    /\ melody_score = [ts |-> FALSE, ks |-> FALSE]
    /\ extracted_melody_notes = <<>>
    /\ extracted_chords = <<>>
    /\ output_part = <<>>
    /\ failures = {}
    /\ output_written = FALSE
    /\ exit_code = -1

\* sys.exit(1): from the except clause of step 1, or from main's except
\* clause around run_lead_sheet_generation
ExitFailure(step) ==
    /\ pc' = "exited"
    /\ exit_code' = 1
    /\ failures' = failures \cup {step}

\* step 1: mido.MidiFile and converter.parse succeed
LeadParse ==
    /\ pc = "lead_parse"
    /\ ticks_per_quarter' \in TicksPerQuarterValues
    /\ melody_score' \in { [ts |-> TRUE, ks |-> TRUE], [ts |-> TRUE, ks |-> FALSE],
                           [ts |-> FALSE, ks |-> FALSE] }
    /\ pc' = "lead_melody"
    /\ UNCHANGED <<chordVars, decVars, normVars, consumed, absolute_time_ticks, open_notes,
                   notes, rehearsal_marks, result, file, extracted_melody_notes,
                   extracted_chords, output_part, failures, output_written,
                   exit_code>>

\* step 1: the file cannot be opened or parsed
LeadParseFails ==
    /\ pc = "lead_parse"
    /\ ExitFailure("parse")
    /\ UNCHANGED <<chordVars, decVars, normVars, scanVars, file, melody_score,
                   extracted_melody_notes, extracted_chords, output_part,
                   output_written>>

\* step 2: _parse_melody_with_mido returns
LeadMelody ==
    /\ pc = "lead_melody"
    /\ extracted_melody_notes' = ParseMelody(file, ticks_per_quarter)
    /\ pc' = "lead_chords"
    /\ UNCHANGED <<chordVars, decVars, normVars, scanVars, file, melody_score,
                   extracted_chords, output_part, failures, output_written,
                   exit_code>>

\* step 2: mido.MidiFile raises inside _parse_melody_with_mido
LeadMelodyFails ==
    /\ pc = "lead_melody"
    /\ ExitFailure("melody")
    /\ UNCHANGED <<chordVars, decVars, normVars, scanVars, file, melody_score,
                   extracted_melody_notes, extracted_chords, output_part,
                   output_written>>

\* step 3: _parse_chords_from_midi scans the file
LeadChords ==
    /\ pc = "lead_chords"
    /\ extracted_chords' = ParseChords(file, ticks_per_quarter)
    /\ pc' = "lead_merge"
    /\ UNCHANGED <<chordVars, decVars, normVars, scanVars, file, melody_score,
                   extracted_melody_notes, output_part, failures,
                   output_written, exit_code>>

\* step 3: mido.MidiFile raises inside _parse_chords_from_midi, which
\* prints the error and returns []
LeadChordsOpenFails ==
    /\ pc = "lead_chords"
    /\ extracted_chords' = <<>>
    /\ failures' = failures \cup {"chords"}
    /\ pc' = "lead_merge"
    /\ UNCHANGED <<chordVars, decVars, normVars, scanVars, file, melody_score,
                   extracted_melody_notes, output_part, output_written,
                   exit_code>>

\* steps 4 to 6: the signatures, the chords and the notes go into the part
LeadMerge ==
    /\ pc = "lead_merge"
    /\ output_part' = MergedPart(melody_score, extracted_chords,
                                 extracted_melody_notes)
    /\ pc' = "lead_quantize"
    /\ UNCHANGED <<chordVars, decVars, normVars, scanVars, file, melody_score,
                   extracted_melody_notes, extracted_chords, failures,
                   output_written, exit_code>>

\* step 6.5: output_part.quantize() returns; the snapping to the grid is
\* music21's and the elements are kept as they were handed over
LeadQuantize ==
    /\ pc = "lead_quantize"
    /\ pc' = "lead_write"
    /\ UNCHANGED <<chordVars, decVars, normVars, scanVars, leadVars>>

\* step 6.5: quantize raises
LeadQuantizeFails ==
    /\ pc = "lead_quantize"
    /\ ExitFailure("quantize")
    /\ UNCHANGED <<chordVars, decVars, normVars, scanVars, file, melody_score,
                   extracted_melody_notes, extracted_chords, output_part,
                   output_written>>

\* step 7: the file is written, then main exits with 0
LeadWrite ==
    /\ pc = "lead_write"
    /\ output_written' = TRUE
    /\ exit_code' = 0
    /\ pc' = "exited"
    /\ UNCHANGED <<chordVars, decVars, normVars, scanVars, file, melody_score,
                   extracted_melody_notes, extracted_chords, output_part,
                   failures>>

\* step 7: mkdir or write raises; the file may have been created or not
LeadWriteFails ==
    /\ pc = "lead_write"
    /\ ExitFailure("write")
    /\ output_written' \in BOOLEAN
    /\ UNCHANGED <<chordVars, decVars, normVars, scanVars, file, melody_score,
                   extracted_melody_notes, extracted_chords, output_part>>

NextLead ==
    \/ LeadParse \/ LeadParseFails
    \/ LeadMelody \/ LeadMelodyFails
    \/ LeadChords \/ LeadChordsOpenFails
    \/ LeadMerge
    \/ LeadQuantize \/ LeadQuantizeFails
    \/ LeadWrite \/ LeadWriteFails

SpecLead == InitLead /\ [][NextLead]_vars

(***************************************************************************)
(* Properties of the lead-sheet generation.                                *)
(***************************************************************************)
\* the chords and notes found in the file are all in the part
HoldsAll(part, els) ==
    \A el \in { els[k] : k \in 1..Len(els) } :
        Cardinality({ k \in 1..Len(part) : part[k] = el })
            = Cardinality({ k \in 1..Len(els) : els[k] = el })

\* C7: the part handed to quantize holds every chord and note found, its
\* elements are in the order of their offsets, and a chord stands before
\* every note of the same offset.
C7_ChordsBeforeNotes ==
    pc = "lead_quantize" =>
        /\ HoldsAll(output_part, extracted_chords)
        /\ HoldsAll(output_part, extracted_melody_notes)
        /\ \A a, b \in 1..Len(output_part) :
             a < b =>
                 /\ ~OffsetLess(output_part[b].offset, output_part[a].offset)
                 /\ ~(/\ output_part[a].kind = "note"
                      /\ output_part[b].kind = "chord"
                      /\ output_part[a].offset = output_part[b].offset)

\* a note that precedes, in the file, a chord of the same offset
C7_Witness ==
    /\ pc = "lead_quantize"
    /\ Len(file) >= 2
    /\ file[1].type = "note_on"
    /\ file[2].type = "sequencer_specific" /\ file[2].time = 0
    /\ \E a, b \in 1..Len(output_part) :
         /\ a < b
         /\ output_part[a].kind = "chord"
         /\ output_part[b].kind = "note"
         /\ output_part[a].offset = output_part[b].offset

OpenFailures == {"parse", "melody", "chords"}

\* C9: once the input file fails to open or parse, in the initial parse,
\* the melody extraction or the chord scan, the run ends with exit code 1
\* and no output file; the output file is written only when no step before
\* the write has failed.
C9_OpenFailureIsFatal ==
    /\ failures \cap OpenFailures # {} => (~output_written /\ exit_code # 0)
    /\ (failures \cap OpenFailures # {} /\ pc = "exited") => exit_code = 1
    /\ (output_written /\ exit_code = 0) => failures = {}

====
